---------------------------- MODULE Spec2Model ----------------------------
(***************************************************************************)
(* GTHC_HK: the GNSS tropospheric height correction of GTHC_HK.c.          *)
(*                                                                         *)
(* Representation of the C doubles.  TLC has 32-bit integers and no        *)
(* floating point, so every double of the program is a fixed-point         *)
(* integer whose scale depends on the quantity it holds:                   *)
(*                                                                         *)
(*   latitude, longitude          1/100 degree        (22.35 is 2235)      *)
(*   heights, hgt_diff            whole metres        (200.0 is 200)       *)
(*   delays (BaseTrop, UserTrop)  1/100 mm            (2200.0 is 220000)   *)
(*   scale heights and the        1/10000             (8431.2 is 84312000) *)
(*     coefficients A_ZTD, A_ZWD                                           *)
(*   t, angles, cos, sin, exp     1/1000000           (1.0 is 1000000)     *)
(*                                                                         *)
(* Every arithmetic operation rounds toward zero at its result's scale     *)
(* (the program rounds to nearest at 53 bits).  cos, sin and exp of libm   *)
(* are computed by their power series in this arithmetic.                  *)
(***************************************************************************)
EXTENDS Integers, Sequences, FiniteSets

----------------------------------------------------------------------------
(* Fixed-point arithmetic standing for the double operations of the code.  *)

UNIT == 10^6
COEF == 10^4
LIMB == 10^3

Abs(x) == IF x < 0 THEN -x ELSE x
Sgn(x) == IF x < 0 THEN -1 ELSE IF x = 0 THEN 0 ELSE 1

\* |x| * |y| / UNIT, rounded down, without leaving 32 bits: x and y are split
\* in limbs of three decimal digits.
MulMag(x, y) ==
    LET x1 == x \div LIMB
        x0 == x % LIMB
        y1 == y \div LIMB
        y0 == y % LIMB
    IN  x1 * y1 + ((x1 * y0 + x0 * y1 + ((x0 * y0) \div LIMB)) \div LIMB)

\* The double product x * y where y (or x) has scale UNIT: the result has the
\* scale of the other factor.
FMul(x, y) == Sgn(x) * Sgn(y) * MulMag(Abs(x), Abs(y))

\* n * 10^digits / d, rounded down, by long division (n, d >= 0, d > 0).
RECURSIVE LongDiv(_, _, _)
LongDiv(n, d, digits) ==
    IF digits = 0 THEN n \div d
    ELSE (n \div d) * 10^digits + LongDiv((n % d) * 10, d, digits - 1)

\* The double quotient n / d of two values of one scale, at scale UNIT; and
\* of a value n of any scale by a value d of scale UNIT, at the scale of n.
FDiv(n, d) == Sgn(n) * Sgn(d) * LongDiv(Abs(n), Abs(d), 6)

\* M_PI of <math.h>, at scale UNIT.
M_PI == 3141593

\* The power series sum_{k >= 0} term_k, term_{k+1} = term_k * x / (k + 1)
\* (exp), summed until the term vanishes at scale UNIT.
RECURSIVE ExpSeries(_, _, _)
ExpSeries(x, term, k) ==
    IF term = 0 THEN 0
    ELSE term + ExpSeries(x, FMul(term, x) \div k, k + 1)

\* exp of libm: the series for |x|, and its reciprocal for x < 0.
Exp(x) ==
    LET pos == ExpSeries(Abs(x), UNIT, 1)
    IN  IF x >= 0 THEN pos ELSE FDiv(UNIT, pos)

\* The alternating series of cos and sin: term_{k+2} = -term_k * x^2 / ((k+1)(k+2)).
RECURSIVE TrigSeries(_, _, _)
TrigSeries(x2, term, k) ==
    IF term = 0 THEN 0
    ELSE term - TrigSeries(x2, FMul(term, x2) \div ((k + 1) * (k + 2)), k + 2)

\* The argument reduction of libm: x brought into [-pi, pi] by whole turns.
Reduce(x) ==
    LET r == x % (2 * M_PI)
    IN  IF r > M_PI THEN r - 2 * M_PI ELSE r

\* cos and sin of libm.
Cos(x) == LET r == Reduce(x) IN TrigSeries(FMul(r, r), UNIT, 0)
Sin(x) == LET r == Reduce(x) IN TrigSeries(FMul(r, r), r, 1)


----------------------------------------------------------------------------
(* The program: constants and pure functions of GTHC_HK.c.                 *)

\* A C array of three doubles, indexed from 0.
Arr3(a, b, c) == [i \in 0..2 |-> IF i = 0 THEN a ELSE IF i = 1 THEN b ELSE c]

HK_LAT_MIN == 2210
HK_LAT_MAX == 2260
HK_LON_MIN == 11380
HK_LON_MAX == 11450

\* Mutant: the lower bounds are not checked.
is_in_hongkong_noLowerBound(lat, lon) ==
    lat <= HK_LAT_MAX /\ lon <= HK_LON_MAX

\* Mutant: the bounds are exclusive.
is_in_hongkong_exclusive(lat, lon) ==
    (lat > HK_LAT_MIN /\ lat < HK_LAT_MAX) /\
    (lon > HK_LON_MIN /\ lon < HK_LON_MAX)

is_in_hongkong(lat, lon) ==
    (lat >= HK_LAT_MIN /\ lat <= HK_LAT_MAX) /\
    (lon >= HK_LON_MIN /\ lon <= HK_LON_MAX)

\* a[0] * cos(2 * M_PI * t) + a[1] * sin(2 * M_PI * t) + a[2]
func_sinZTD(a, t) ==
    FMul(a[0], Cos(FMul(2 * M_PI, t))) + FMul(a[1], Sin(FMul(2 * M_PI, t))) + a[2]

\* a[0] * cos(2 * M_PI * t) + a[1] * cos(4 * M_PI * t) +
\* a[2] * sin(2 * M_PI * t) + a[3] * cos(4 * M_PI * t) + a[4]
func_sinZWD(a, t) ==
    FMul(a[0], Cos(FMul(2 * M_PI, t))) + FMul(a[1], Cos(FMul(4 * M_PI, t))) +
    FMul(a[2], Sin(FMul(2 * M_PI, t))) + FMul(a[3], Cos(FMul(4 * M_PI, t))) + a[4]

A_ZTD == [i \in 0..2 |-> IF i = 0 THEN 3367441 ELSE IF i = 1 THEN 400469 ELSE 72229708]

A_ZWD ==
    [i \in 0..4 |-> IF i = 0 THEN -167865
                    ELSE IF i = 1 THEN 362186610
                    ELSE IF i = 2 THEN -1308958
                    ELSE IF i = 3 THEN -362975776
                    ELSE 32536004]

BETA_ZHD == 84312000
BETA_ZTD_MEAN == 72288000
BETA_ZWD_MEAN == 32541000

MsgDOY == "GTHC_HK: DOY must be between 1 and 366"
MsgRegion == "GTHC_HK: Station coordinates outside Hong Kong region"

\* Mutant: day 366 is refused.
DoyOutOfRange_offByOne(DOY) == DOY < 1 \/ DOY >= 366

\* if (DOY < 1 || DOY > 366)
DoyOutOfRange(DOY) == DOY < 1 \/ DOY > 366

\* Mutant: only the base station is checked.
RegionRejected_baseOnly(BaseCoor, UserCoor) ==
    ~is_in_hongkong(BaseCoor[0], BaseCoor[1])

\* if (!is_in_hongkong(Lat_base, Lon_base) || !is_in_hongkong(Lat_user, Lon_user))
RegionRejected(BaseCoor, UserCoor) ==
    \/ ~is_in_hongkong(BaseCoor[0], BaseCoor[1])
    \/ ~is_in_hongkong(UserCoor[0], UserCoor[1])

\* Mutant: the base height is not subtracted.
HgtDiff_ignoresBase(Hgt_user, Hgt_base) == Hgt_user

\* double hgt_diff = Hgt_user - Hgt_base;
HgtDiff(Hgt_user, Hgt_base) == Hgt_user - Hgt_base

\* double doy_normalized = DOY / 365.25;
DoyNormalized(DOY) == FDiv(DOY * 100, 36525)

\* Mutant: the seasonal flag is ignored, the annual means are always used.
SelectBeta_alwaysMean(f, a) ==
    [hgt_diff |-> a.UserCoor[2] - a.BaseCoor[2],
     beta_ZHD |-> BETA_ZHD,
     beta_ZTD |-> BETA_ZTD_MEAN,
     beta_ZWD |-> BETA_ZWD_MEAN]

\* Mutant: beta_ZTD and beta_ZWD are static and set by the first call only.
SelectBeta_static(f, a) ==
    [hgt_diff |-> a.UserCoor[2] - a.BaseCoor[2],
     beta_ZHD |-> BETA_ZHD,
     beta_ZTD |-> IF f.beta_ZTD # 0 THEN f.beta_ZTD
                  ELSE IF a.YorN THEN func_sinZTD(A_ZTD, DoyNormalized(a.DOY))
                  ELSE BETA_ZTD_MEAN,
     beta_ZWD |-> IF f.beta_ZWD # 0 THEN f.beta_ZWD
                  ELSE IF a.YorN THEN func_sinZWD(A_ZWD, DoyNormalized(a.DOY))
                  ELSE BETA_ZWD_MEAN]

\* The locals the function sets between the validation and the correction:
\* hgt_diff, beta_ZHD and, by YorN, beta_ZTD and beta_ZWD.  f is what the
\* frame held at entry; every local is assigned before it is read.
SelectBeta(f, a) ==
    [hgt_diff |-> HgtDiff(a.UserCoor[2], a.BaseCoor[2]),
     beta_ZHD |-> BETA_ZHD,
     beta_ZTD |-> IF a.YorN THEN func_sinZTD(A_ZTD, DoyNormalized(a.DOY))
                  ELSE BETA_ZTD_MEAN,
     beta_ZWD |-> IF a.YorN THEN func_sinZWD(A_ZWD, DoyNormalized(a.DOY))
                  ELSE BETA_ZWD_MEAN]

\* Mutant: V_base * exp(-hgt_diff / beta).
HeightCorrected_multiplies(V_base, hgt_diff, beta) ==
    FMul(V_base, Exp(FDiv((-hgt_diff) * COEF, beta)))

\* V_base / exp(-hgt_diff / beta)
HeightCorrected(V_base, hgt_diff, beta) ==
    FDiv(V_base, Exp(FDiv((-hgt_diff) * COEF, beta)))

\* Mutant: ZHD is corrected with the scale height of ZTD.
Corrections_oneScaleHeight(BaseTrop, f) ==
    Arr3(FDiv(BaseTrop[0], Exp(FDiv((-f.hgt_diff) * COEF, f.beta_ZTD))),
         FDiv(BaseTrop[1], Exp(FDiv((-f.hgt_diff) * COEF, f.beta_ZWD))),
         FDiv(BaseTrop[2], Exp(FDiv((-f.hgt_diff) * COEF, f.beta_ZTD))))

\* The three stores to UserTrop.
Corrections(BaseTrop, f) ==
    Arr3(HeightCorrected(BaseTrop[0], f.hgt_diff, f.beta_ZHD),
         HeightCorrected(BaseTrop[1], f.hgt_diff, f.beta_ZWD),
         HeightCorrected(BaseTrop[2], f.hgt_diff, f.beta_ZTD))

----------------------------------------------------------------------------
(* The callers and the calls.  GTHC_HK has no state of its own: everything *)
(* a call touches is its arguments, its locals and the caller's UserTrop.  *)

VARIABLES
    workload,   \* who calls: the callers, their input domain, calls per caller
    pc,         \* pc[c]: where caller c's current call of GTHC_HK stands
    args,       \* args[c]: the arguments of caller c's current call
    frame,      \* frame[c]: the locals hgt_diff, beta_ZHD, beta_ZTD, beta_ZWD
    UserTrop,   \* UserTrop[c]: caller c's output array
    ret,        \* ret[c]: the value the last call of caller c returned
    diag,       \* diag[c]: the lines caller c's current call wrote to stderr
    ncalls,     \* ncalls[c]: the calls caller c has made
    UserTrop0,  \* UserTrop0[c]: what UserTrop[c] held when the current call began
    wrote,      \* wrote[c]: the elements of UserTrop the current call has stored to
    probe       \* the last direct call of is_in_hongkong: <<lat, lon, result>>

vars == <<workload, pc, args, frame, UserTrop, ret, diag, ncalls, UserTrop0, wrote, probe>>

\* The calls each caller makes in the workload of sequential calls.
MaxCalls == 2

Args(trops, bases, users, doys, flags) ==
    [BaseTrop : trops, BaseCoor : bases, UserCoor : users, DOY : doys, YorN : flags]

\* The arguments of main().
DemoTrop == Arr3(220000, 15000, 235000)
DemoBase == Arr3(2230, 11420, 50)
DemoUser == Arr3(2235, 11415, 200)
DemoDOY  == 150

Trops ==
    {DemoTrop, Arr3(220000, 0, 0), Arr3(0, 15000, 0),
     Arr3(-220000, -15000, 235000), Arr3(220000, 0, -235000)}

Heights == {0, 50, 200}

LatLons == {<<0, 0>>, <<2230, 11420>>, <<2235, 11415>>, <<2210, 11380>>, <<2261, 11420>>}

Coors == {Arr3(p[1], p[2], h) : p \in LatLons, h \in Heights}

\* One call, every combination of day, station pair, heights and delays.
FullArgs == Args(Trops \ {Arr3(220000, 0, -235000)}, Coors, Coors,
                 {-1, 0, 1, DemoDOY, 366, 367}, BOOLEAN)

\* Two callers, one call each: a fixed base station, the user station at three
\* heights or outside the region.
PairArgs == Args(Trops, {DemoBase},
                 {Arr3(2235, 11415, h) : h \in Heights} \cup {Arr3(0, 0, 0)},
                 {0, 1, DemoDOY, 366}, BOOLEAN)

\* Two callers, MaxCalls calls each: the call of main() and its variants in
\* the flag, the day and the user height, and a base station outside the box.
SeqArgs ==
    Args({DemoTrop}, {DemoBase}, {DemoUser, Arr3(2235, 11415, 0)},
         {0, DemoDOY}, BOOLEAN)
    \cup Args({DemoTrop}, {Arr3(0, 0, 0)}, {DemoUser}, {DemoDOY}, {TRUE})

Inputs(w) ==
    IF w.domain = "full" THEN FullArgs
    ELSE IF w.domain = "pair" THEN PairArgs
    ELSE SeqArgs

ZeroBuf == Arr3(0, 0, 0)
ZeroFrame == [hgt_diff |-> 0, beta_ZHD |-> 0, beta_ZTD |-> 0, beta_ZWD |-> 0]
NoArgs == [BaseTrop |-> ZeroBuf, BaseCoor |-> ZeroBuf, UserCoor |-> ZeroBuf,
           DOY |-> 0, YorN |-> FALSE]
NoProbe == <<0, 0, FALSE>>

\* The state before any call: w is the workload, bufs what a caller's output
\* array may hold before its first call.
InitWith(w, bufs) ==
    /\ workload = w
    /\ pc = [c \in w.callers |-> "idle"]
    /\ args = [c \in w.callers |-> NoArgs]
    /\ frame = [c \in w.callers |-> ZeroFrame]
    /\ UserTrop \in [w.callers -> bufs]
    /\ UserTrop0 = UserTrop
    /\ ret = [c \in w.callers |-> 0]
    /\ diag = [c \in w.callers |-> <<>>]
    /\ ncalls = [c \in w.callers |-> 0]
    /\ wrote = [c \in w.callers |-> {}]
    /\ probe = NoProbe

Init == InitWith([callers |-> {1}, domain |-> "full", calls |-> 1],
                 {ZeroBuf, Arr3(-777, -777, -777)})

InitPair == InitWith([callers |-> {1, 2}, domain |-> "pair", calls |-> 1], {ZeroBuf})

InitSeq == InitWith([callers |-> {1, 2}, domain |-> "seq", calls |-> MaxCalls], {ZeroBuf})

\* Caller c calls GTHC_HK(a.BaseTrop, a.BaseCoor, a.UserCoor, a.DOY, a.YorN, UserTrop[c])
\* for some arguments a of the workload.
Call(c) ==
    /\ pc[c] \in {"idle", "done"}
    /\ ncalls[c] < workload.calls
    /\ \E a \in Inputs(workload) : args' = [args EXCEPT ![c] = a]
    /\ pc' = [pc EXCEPT ![c] = "doy"]
    /\ ncalls' = [ncalls EXCEPT ![c] = @ + 1]
    /\ diag' = [diag EXCEPT ![c] = <<>>]
    /\ wrote' = [wrote EXCEPT ![c] = {}]
    /\ UserTrop0' = [UserTrop0 EXCEPT ![c] = UserTrop[c]]
    /\ UNCHANGED <<workload, frame, UserTrop, ret, probe>>

\* Input validation: the day of year.
ValidateDOY(c) ==
    /\ pc[c] = "doy"
    /\ IF DoyOutOfRange(args[c].DOY)
       THEN /\ diag' = [diag EXCEPT ![c] = Append(@, MsgDOY)]
            /\ ret' = [ret EXCEPT ![c] = -1]
            /\ pc' = [pc EXCEPT ![c] = "done"]
       ELSE /\ pc' = [pc EXCEPT ![c] = "region"]
            /\ UNCHANGED <<diag, ret>>
    /\ UNCHANGED <<workload, args, frame, UserTrop, ncalls, UserTrop0, wrote, probe>>

\* Mutant: a region failure zeroes the output array before it returns.
ValidateRegion_clearsOutput(c) ==
    /\ pc[c] = "region"
    /\ IF RegionRejected(args[c].BaseCoor, args[c].UserCoor)
       THEN /\ diag' = [diag EXCEPT ![c] = Append(@, MsgRegion)]
            /\ ret' = [ret EXCEPT ![c] = -1]
            /\ pc' = [pc EXCEPT ![c] = "done"]
            /\ UserTrop' = [UserTrop EXCEPT ![c] = ZeroBuf]
            /\ wrote' = [wrote EXCEPT ![c] = {2, 1, 0}]
       ELSE /\ pc' = [pc EXCEPT ![c] = "select"]
            /\ UNCHANGED <<diag, ret, UserTrop, wrote>>
    /\ UNCHANGED <<workload, args, frame, ncalls, UserTrop0, probe>>

\* Hong Kong region validation of both stations.
ValidateRegion(c) ==
    /\ pc[c] = "region"
    /\ IF RegionRejected(args[c].BaseCoor, args[c].UserCoor)
       THEN /\ diag' = [diag EXCEPT ![c] = Append(@, MsgRegion)]
            /\ ret' = [ret EXCEPT ![c] = -1]
            /\ pc' = [pc EXCEPT ![c] = "done"]
       ELSE /\ pc' = [pc EXCEPT ![c] = "select"]
            /\ UNCHANGED <<diag, ret>>
    /\ UNCHANGED <<workload, args, frame, UserTrop, ncalls, UserTrop0, wrote, probe>>

\* The height difference and the scale heights.
SelectScaleHeights(c) ==
    /\ pc[c] = "select"
    /\ frame' = [frame EXCEPT ![c] = SelectBeta(@, args[c])]
    /\ pc' = [pc EXCEPT ![c] = "apply"]
    /\ UNCHANGED <<workload, args, UserTrop, ret, diag, ncalls, UserTrop0, wrote, probe>>

\* The exponential height correction, stored to UserTrop[2], [1], [0]; return 0.
ApplyCorrection(c) ==
    /\ pc[c] = "apply"
    /\ UserTrop' = [UserTrop EXCEPT ![c] = Corrections(args[c].BaseTrop, frame[c])]
    /\ wrote' = [wrote EXCEPT ![c] = {2, 1, 0}]
    /\ ret' = [ret EXCEPT ![c] = 0]
    /\ pc' = [pc EXCEPT ![c] = "done"]
    /\ UNCHANGED <<workload, args, frame, diag, ncalls, UserTrop0, probe>>

Next ==
    \/ \E c \in workload.callers : Call(c)
    \/ \E c \in workload.callers : ValidateDOY(c)
    \/ \E c \in workload.callers : ValidateRegion(c)
    \/ \E c \in workload.callers : SelectScaleHeights(c)
    \/ \E c \in workload.callers : ApplyCorrection(c)

Spec == Init /\ [][Next]_vars
SpecPair == InitPair /\ [][Next]_vars
SpecSeq == InitSeq /\ [][Next]_vars

\* is_in_hongkong called on its own, over a grid around the bounding box.
ProbeLats == {2200 + 5 * i : i \in 0..14} \cup {HK_LAT_MIN - 1, HK_LAT_MAX + 1, 0}
ProbeLons == {11370 + 10 * i : i \in 0..9} \cup {HK_LON_MIN - 1, HK_LON_MAX + 1, 0}

InitRegion == InitWith([callers |-> {1}, domain |-> "none", calls |-> 0], {ZeroBuf})

Probe(lat, lon) ==
    /\ probe' = <<lat, lon, is_in_hongkong(lat, lon)>>
    /\ UNCHANGED <<workload, pc, args, frame, UserTrop, ret, diag, ncalls, UserTrop0, wrote>>

NextRegion == \E lat \in ProbeLats, lon \in ProbeLons : Probe(lat, lon)

SpecRegion == InitRegion /\ [][NextRegion]_vars

----------------------------------------------------------------------------
(* The properties.                                                         *)

Done(c) == pc[c] = "done"
Succeeded(c) == Done(c) /\ ret[c] = 0
Failed(c) == Done(c) /\ ret[c] # 0

\* What a failed call reported, read from the diagnostic it wrote.
InvalidDayOfYear(c) == Failed(c) /\ diag[c] = <<MsgDOY>>
OutOfRegion(c) == Failed(c) /\ diag[c] = <<MsgRegion>>

\* The bounding box as the specification states it: [22.1, 22.6] x [113.8, 114.5].
InBox(lat, lon) == 2210 <= lat /\ lat <= 2260 /\ 11380 <= lon /\ lon <= 11450
CoorInBox(coor) == InBox(coor[0], coor[1])
DayInYear(DOY) == DOY \in 1..366

\* The arguments of two calls agree except, possibly, in the user height.
SameButUserHeight(a, b) ==
    /\ a.BaseTrop = b.BaseTrop /\ a.BaseCoor = b.BaseCoor
    /\ a.DOY = b.DOY /\ a.YorN = b.YorN
    /\ a.UserCoor[0] = b.UserCoor[0] /\ a.UserCoor[1] = b.UserCoor[1]

\* The arguments of two calls agree except, possibly, in the seasonal flag.
SameButFlag(a, b) ==
    /\ a.BaseTrop = b.BaseTrop /\ a.BaseCoor = b.BaseCoor
    /\ a.UserCoor = b.UserCoor /\ a.DOY = b.DOY

ArgHgtDiff(a) == a.UserCoor[2] - a.BaseCoor[2]

\* C1: a call fails with InvalidDayOfYear exactly when day_of_year < 1 or
\* day_of_year > 366, whatever the coordinates are (the day is checked before
\* the region, and then only the day-of-year diagnostic is written); a call
\* with a day in [1, 366] and both stations in the box succeeds.
C1_DayOfYearCheckedFirst ==
    \A c \in workload.callers :
        Done(c) =>
            /\ InvalidDayOfYear(c) <=> ~DayInYear(args[c].DOY)
            /\ ~DayInYear(args[c].DOY) => ~OutOfRegion(c) /\ ret[c] = -1
            /\ (DayInYear(args[c].DOY) /\ CoorInBox(args[c].BaseCoor)
                    /\ CoorInBox(args[c].UserCoor)) => ret[c] = 0

\* A call with day 0 and the base station outside the box has returned.
C1_Witness ==
    \E c \in workload.callers :
        /\ Done(c) /\ args[c].DOY = 0 /\ ~CoorInBox(args[c].BaseCoor)
        /\ ret[c] = -1 /\ diag[c] = <<MsgDOY>>

\* C2: with day_of_year in [1, 366], a call fails with OutOfRegion exactly
\* when the base or the user station lies outside the box (the same error for
\* either or both), and succeeds otherwise; the heights play no part.
C2_OutOfRegionIffOutsideBox ==
    \A c \in workload.callers :
        (Done(c) /\ DayInYear(args[c].DOY)) =>
            /\ OutOfRegion(c) <=>
                  (~CoorInBox(args[c].BaseCoor) \/ ~CoorInBox(args[c].UserCoor))
            /\ (CoorInBox(args[c].BaseCoor) /\ CoorInBox(args[c].UserCoor))
                  => (ret[c] = 0 /\ diag[c] = <<>>)

\* A call whose base station is inside and whose user station, at a height
\* other than the base's, is outside has returned.
C2_Witness ==
    \E c \in workload.callers :
        /\ Done(c) /\ DayInYear(args[c].DOY)
        /\ CoorInBox(args[c].BaseCoor) /\ ~CoorInBox(args[c].UserCoor)
        /\ args[c].UserCoor[2] # args[c].BaseCoor[2]
        /\ OutOfRegion(c)

\* C3 as claimed: a call with base_coord = (0, 0, 0) fails with OutOfRegion
\* for every other input, days outside [1, 366] included.
C3_Original ==
    \A c \in workload.callers :
        (Done(c) /\ args[c].BaseCoor = ZeroBuf) => OutOfRegion(c)

\* C3, amended: a call with base_coord = (0, 0, 0) fails for every other
\* input: with OutOfRegion when day_of_year is in [1, 366], and with
\* InvalidDayOfYear when it is not.
C3_ZeroBaseFails ==
    \A c \in workload.callers :
        (Done(c) /\ args[c].BaseCoor = ZeroBuf) =>
            /\ ret[c] = -1
            /\ DayInYear(args[c].DOY) => OutOfRegion(c)
            /\ ~DayInYear(args[c].DOY) => InvalidDayOfYear(c)

\* A call with base_coord = (0, 0, 0), a day in the year and the user station
\* in the box has returned.
C3_Witness ==
    \E c \in workload.callers :
        /\ Done(c) /\ args[c].BaseCoor = ZeroBuf /\ args[c].DOY = DemoDOY
        /\ CoorInBox(args[c].UserCoor) /\ OutOfRegion(c)

\* The frame part of C4: a call stores nothing to UserTrop before it returns
\* 0; a failed call has stored nothing and written one diagnostic; a
\* successful call has stored all three elements and written none.
NoPartialResult ==
    \A c \in workload.callers :
        /\ ~Done(c) => (wrote[c] = {} /\ UserTrop[c] = UserTrop0[c])
        /\ Failed(c) => /\ wrote[c] = {} /\ UserTrop[c] = UserTrop0[c]
                        /\ diag[c] \in {<<MsgDOY>>, <<MsgRegion>>}
        /\ Succeeded(c) => (wrote[c] = {0, 1, 2} /\ diag[c] = <<>>)

\* C4 as claimed: the two failure causes reach the caller as two error kinds
\* it can tell apart (two failed calls of different cause return different
\* values), and no failed call leaves a partial result.
C4_Original ==
    /\ NoPartialResult
    /\ \A c1, c2 \in workload.callers :
          (InvalidDayOfYear(c1) /\ OutOfRegion(c2)) => ret[c1] # ret[c2]

\* C4, amended: both failure causes return the same value -1 and differ only
\* in the diagnostic line written to stderr (exactly one line per failed
\* call, naming the cause); a failed call stores none of UserTrop[0..2], a
\* successful call returns 0 and stores all three.
C4_SameCodeNoPartialResult ==
    /\ NoPartialResult
    /\ \A c \in workload.callers : Done(c) => ret[c] \in {0, -1}
    /\ \A c1, c2 \in workload.callers :
          (InvalidDayOfYear(c1) /\ OutOfRegion(c2)) =>
              (ret[c1] = ret[c2] /\ diag[c1] # diag[c2])

\* One caller's call has failed on the day, the other's on the region.
C4_Witness ==
    \E c1, c2 \in workload.callers :
        /\ InvalidDayOfYear(c1) /\ OutOfRegion(c2)
        /\ ~DayInYear(args[c1].DOY) /\ ~CoorInBox(args[c2].UserCoor)

\* C5: is_in_hongkong returns true exactly for 22.1 <= lat <= 22.6 and
\* 113.8 <= lon <= 114.5, the four bounds included, and a call of it changes
\* nothing but its result.
C5_InRegionIffInBox ==
    /\ probe[3] \in BOOLEAN
    /\ probe[3] <=> InBox(probe[1], probe[2])
    /\ \A c \in workload.callers :
          pc[c] = "idle" /\ diag[c] = <<>> /\ UserTrop[c] = UserTrop0[c]

\* is_in_hongkong has answered true at the corner lat = 22.1, lon = 114.5.
C5_Witness == probe = <<2210, 11450, TRUE>>

\* C6: a successful call with user height = base height returns each of the
\* three base delays unchanged, for every day and both seasonal flags.
C6_HeightInvariance ==
    \A c \in workload.callers :
        (Succeeded(c) /\ args[c].UserCoor[2] = args[c].BaseCoor[2]) =>
            \A i \in 0..2 : UserTrop[c][i] = args[c].BaseTrop[i]

\* A seasonal call at equal non-zero heights has overwritten a buffer that
\* held other values with the base delays.
C6_Witness ==
    \E c \in workload.callers :
        /\ Succeeded(c) /\ args[c].YorN /\ args[c].BaseTrop = DemoTrop
        /\ args[c].UserCoor[2] = 200 /\ args[c].BaseCoor[2] = 200
        /\ UserTrop0[c] # ZeroBuf /\ UserTrop[c] = DemoTrop

\* C7 as claimed: of two successful calls that differ only in the user
\* height, the one with the greater height has the greater value in each of
\* the three outputs, for every base delay, zero and negative ones included.
C7_Original ==
    \A c1, c2 \in workload.callers :
        (/\ Succeeded(c1) /\ Succeeded(c2)
         /\ SameButUserHeight(args[c1], args[c2])
         /\ args[c1].UserCoor[2] < args[c2].UserCoor[2]) =>
            \A i \in 0..2 : UserTrop[c1][i] < UserTrop[c2][i]

\* C7, amended: the three scale heights are positive in every successful
\* call; of two successful calls that differ only in the user height (by 50 m
\* or more), the one with the greater height has the greater output where
\* the base delay is positive, the smaller output where it is negative, and
\* both have output 0 where it is 0.
C7_MonotoneBySign ==
    /\ \A c \in workload.callers :
          Succeeded(c) =>
              (frame[c].beta_ZHD > 0 /\ frame[c].beta_ZWD > 0 /\ frame[c].beta_ZTD > 0)
    /\ \A c1, c2 \in workload.callers :
          (/\ Succeeded(c1) /\ Succeeded(c2)
           /\ SameButUserHeight(args[c1], args[c2])
           /\ args[c1].UserCoor[2] < args[c2].UserCoor[2]) =>
              \A i \in 0..2 :
                  /\ args[c1].BaseTrop[i] > 0 => UserTrop[c1][i] < UserTrop[c2][i]
                  /\ args[c1].BaseTrop[i] < 0 => UserTrop[c1][i] > UserTrop[c2][i]
                  /\ args[c1].BaseTrop[i] = 0 =>
                        (UserTrop[c1][i] = 0 /\ UserTrop[c2][i] = 0)

\* Two successful seasonal calls on base delays (2200, 0, -2350), the user
\* below the base in one and above it in the other.
C7_Witness ==
    \E c1, c2 \in workload.callers :
        /\ Succeeded(c1) /\ Succeeded(c2)
        /\ SameButUserHeight(args[c1], args[c2])
        /\ args[c1].BaseTrop = Arr3(220000, 0, -235000) /\ args[c1].YorN
        /\ args[c1].UserCoor[2] = 0 /\ args[c2].UserCoor[2] = 200

\* C8 as claimed: of two successful calls that differ only in use_seasonal,
\* the outputs (ZHD, ZWD, ZTD) are equal when height_diff = 0 and differ
\* whenever height_diff # 0.
C8_Original ==
    \A c1, c2 \in workload.callers :
        (/\ Succeeded(c1) /\ Succeeded(c2)
         /\ SameButFlag(args[c1], args[c2])
         /\ ~args[c1].YorN /\ args[c2].YorN) =>
            IF ArgHgtDiff(args[c1]) = 0
            THEN UserTrop[c1] = UserTrop[c2]
            ELSE UserTrop[c1] # UserTrop[c2]

\* C8, amended: of two successful calls that differ only in use_seasonal,
\* the ZHD outputs are always equal; all outputs are equal when
\* height_diff = 0; the ZWD (ZTD) outputs are equal when ZWD_base (ZTD_base)
\* is 0, and differ when it is not 0 and height_diff is -50 m or 150 m, on
\* days 1, 150 and 366.
C8_SeasonalFlagChangesWetAndTotal ==
    \A c1, c2 \in workload.callers :
        (/\ Succeeded(c1) /\ Succeeded(c2)
         /\ SameButFlag(args[c1], args[c2])
         /\ ~args[c1].YorN /\ args[c2].YorN) =>
            /\ UserTrop[c1][0] = UserTrop[c2][0]
            /\ ArgHgtDiff(args[c1]) = 0 => UserTrop[c1] = UserTrop[c2]
            /\ \A i \in {1, 2} :
                  /\ args[c1].BaseTrop[i] = 0 => UserTrop[c1][i] = UserTrop[c2][i]
                  /\ (args[c1].BaseTrop[i] # 0 /\ ArgHgtDiff(args[c1]) # 0)
                        => UserTrop[c1][i] # UserTrop[c2][i]

\* The arguments of main() with and without the seasonal model: the ZHD
\* outputs agree, the ZWD and ZTD outputs do not.
C8_Witness ==
    \E c1, c2 \in workload.callers :
        /\ Succeeded(c1) /\ Succeeded(c2)
        /\ SameButFlag(args[c1], args[c2]) /\ ~args[c1].YorN /\ args[c2].YorN
        /\ args[c1].BaseTrop = DemoTrop /\ args[c1].UserCoor = DemoUser
        /\ args[c1].DOY = DemoDOY
        /\ UserTrop[c1][1] # UserTrop[c2][1] /\ UserTrop[c1][2] # UserTrop[c2][2]

\* C9: GTHC_HK keeps no state across calls: two completed calls with the same
\* arguments, by any callers, after any earlier calls (failed ones included)
\* and under any interleaving, return the same value, write the same
\* diagnostic and, when they succeed, store the same three outputs.
C9_ResultDependsOnArgumentsOnly ==
    \A c1, c2 \in workload.callers :
        (Done(c1) /\ Done(c2) /\ args[c1] = args[c2]) =>
            /\ ret[c1] = ret[c2]
            /\ diag[c1] = diag[c2]
            /\ ret[c1] = 0 => UserTrop[c1] = UserTrop[c2]

\* A first call and, by the other caller, the same successful call made
\* second, after a call that failed without storing anything.
C9_Witness ==
    \E c1, c2 \in workload.callers :
        /\ Succeeded(c1) /\ Succeeded(c2) /\ args[c1] = args[c2]
        /\ ncalls[c1] = 1 /\ ncalls[c2] = 2
        /\ UserTrop0[c2] = ZeroBuf /\ UserTrop[c2] # ZeroBuf

\* C10: in every successful call the ZHD scale height is 8431.2, so the ZHD
\* output is the same for equal ZHD_base and height_diff, whatever the day,
\* the flag and the other two base delays are; without the seasonal model
\* the ZTD and ZWD scale heights are 7228.8 and 3254.1, so all outputs are
\* the same for every day; and each output is the same for equal own base
\* value, own scale height and height_diff.
C10_ComponentsIndependent ==
    /\ \A c \in workload.callers :
          Succeeded(c) =>
              /\ frame[c].beta_ZHD = 84312000
              /\ ~args[c].YorN =>
                    (frame[c].beta_ZTD = 72288000 /\ frame[c].beta_ZWD = 32541000)
    /\ \A c1, c2 \in workload.callers :
          (Succeeded(c1) /\ Succeeded(c2)
              /\ ArgHgtDiff(args[c1]) = ArgHgtDiff(args[c2])) =>
              /\ args[c1].BaseTrop[0] = args[c2].BaseTrop[0]
                    => UserTrop[c1][0] = UserTrop[c2][0]
              /\ (~args[c1].YorN /\ ~args[c2].YorN
                      /\ args[c1].BaseTrop = args[c2].BaseTrop)
                    => UserTrop[c1] = UserTrop[c2]
              /\ (args[c1].BaseTrop[1] = args[c2].BaseTrop[1]
                      /\ frame[c1].beta_ZWD = frame[c2].beta_ZWD)
                    => UserTrop[c1][1] = UserTrop[c2][1]
              /\ (args[c1].BaseTrop[2] = args[c2].BaseTrop[2]
                      /\ frame[c1].beta_ZTD = frame[c2].beta_ZTD)
                    => UserTrop[c1][2] = UserTrop[c2][2]

\* Two successful calls 150 m up with the same ZHD_base that differ in the
\* day, the flag, ZWD_base and ZTD_base.
C10_Witness ==
    \E c1, c2 \in workload.callers :
        /\ Succeeded(c1) /\ Succeeded(c2)
        /\ ArgHgtDiff(args[c1]) = 150 /\ ArgHgtDiff(args[c2]) = 150
        /\ args[c1].BaseTrop[0] = 220000 /\ args[c2].BaseTrop[0] = 220000
        /\ args[c1].BaseTrop[1] # args[c2].BaseTrop[1]
        /\ args[c1].BaseTrop[2] # args[c2].BaseTrop[2]
        /\ args[c1].DOY # args[c2].DOY /\ args[c1].YorN # args[c2].YorN
        /\ UserTrop[c1][0] = UserTrop[c2][0] /\ UserTrop[c1][2] # UserTrop[c2][2]

=============================================================================
